---- MODULE Spec2Model ----
\* View-tracking cache and batched persistence of the social media backend:
\* ViewService (backend/src/services/views.py), the flush job
\* (backend/src/tasks/flush_views.py), the /posts/views endpoint and the
\* post_views table (backend/src/models/post_view.py).
EXTENDS Integers, Sequences, FiniteSets, TLC

\* ---------------------------------------------------------------- bounds
\* datetime.utcnow().timestamp() takes the values 0..MaxTime.
MaxTime == 1
\* The pending log holds at most MaxPending entries (guard of the cache writes).
MaxPending == 2
\* The lists filter_unviewed is asked about have at most MaxList post ids.
MaxList == 3

\* ---------------------------------------------------------------- inputs
\* Authenticated users (CurrentUser): each has a row in the users table.
Users == {1, 2}
\* Posts that have a row in the posts table.
ExistingPosts == {10, 20}
\* track_views takes any list of integers: 99 is the id of no post.
PostIds == ExistingPosts \cup {99}
\* The requests POST /posts/views is called with: <<user, post_ids>>.
Requests == {<<1, << >>>>, <<1, <<10, 20>>>>, <<2, <<10, 10>>>>, <<2, <<99>>>>}
\* What the wall clock may read when a request is handled (it is not monotonic).
Times == 0..MaxTime

\* The requests of the PostService that may be in progress at once.
MaxCalls == 2

\* ---------------------------------------------------------------- posts: inputs
\* The users of the post endpoints are 1 (the author of post 10), 2 and 3.
\* User.is_admin
Admins == {3}
\* Post.author_id
Author == [p \in ExistingPosts |-> IF p = 10 THEN 1 ELSE 2]
\* The requests on posts: <<operation, user, post id>>.
PostRequests ==
    {<<"toggle", 1, 10>>, <<"like", 2, 10>>, <<"unlike", 2, 10>>, <<"update", 1, 10>>,
     <<"delete", 2, 10>>, <<"delete", 3, 10>>, <<"get", 2, 10>>, <<"like", 2, 99>>}
Slots == 1..MaxCalls

\* ---------------------------------------------------------------- constants
\* ViewService.VIEW_EXPIRY_SECONDS = 7 * 24 * 60 * 60
VIEW_EXPIRY_SECONDS == 604800

\* Time passes in steps of half the expiry window.
ElapseStep == VIEW_EXPIRY_SECONDS \div 2

VARIABLES
    viewed,      \* cache: user -> members of "user:{id}:viewed_posts" (strings)
    ttl,         \* cache: user -> remaining lifetime of "user:{id}:viewed_posts" in
                 \* seconds, 0 when the key has none
    pending,     \* cache: members of the set "pending_views" (encoded strings)
    db,          \* table post_views: a bag of rows (the pk id is left out)
    pc,          \* flush_views_job: "flush" | "write" | "clear" | "sleep" | "cancelled"
    snap,        \* flush_to_db's local `pending`: the snapshot smembers returned
    result,      \* what the job's loop saw of the last tick: a count or an exception
    windowAdds,  \* history: entries newly logged since the running tick's snapshot
    retry,       \* history: the log as a failed bulk write left it, while nothing was logged since
    quiet,       \* history: a flush has returned and nothing was logged since
    dropped,     \* history: what the last clear deleted that its snapshot did not hold,
                 \* kept until the cache changes again or the job wakes up
    trip,        \* history: the one mark_viewed call that filled the empty log, while
                 \* nothing but the flush job has run since
    idle,        \* history: user -> seconds passed since the user's last non-empty
                 \* mark_viewed, while the viewed set exists
    raised,      \* the last mark_viewed or has_viewed call ended with an exception
                 \* raised to its caller
    liked_by,    \* table post_likes: post -> the users who like it (Post.liked_by)
    is_deleted,  \* table posts: post -> the is_deleted column
    calls,       \* the PostService requests in progress: slot -> op, user, post,
                 \* the await it is at, and what it has read
    response,    \* the last response of a PostService request
    toggled      \* history: the user whose toggle requests are followed, the likes of
                 \* the post when the first was received, and how many have replied

vars == <<viewed, ttl, pending, db, pc, snap, result, windowAdds, retry, quiet, dropped, trip,
          idle, raised, liked_by, is_deleted, calls, response, toggled>>

\* ---------------------------------------------------------------- strings
\* A string is a sequence of tokens: a rendered number, the ':' character,
\* text that is no number, or the text of a float no datetime can hold
\* ("1e19", "inf").
Num(n) == <<"num", n>>
Colon == <<"colon", 0>>
Junk == <<"junk", 0>>
Huge == <<"huge", 0>>

\* Mutant: the entry is rendered with whole seconds, here always 0.
Encode_DropsTimestamp(user_id, post_id, timestamp) ==
    <<Num(user_id), Colon, Num(post_id), Colon, Num(0)>>

\* Mutant: the timestamp is rendered as a time of day, with a ':' in it.
Encode_ColonInTimestamp(user_id, post_id, timestamp) ==
    <<Num(user_id), Colon, Num(post_id), Colon, Num(timestamp), Colon, Num(0)>>

\* f"{user_id}:{post_id}:{timestamp}"
Encode(user_id, post_id, timestamp) ==
    <<Num(user_id), Colon, Num(post_id), Colon, Num(timestamp)>>

\* item.split(":"): the fields between the ':' characters.
RECURSIVE SplitFrom(_, _, _)
SplitFrom(s, i, field) ==
    IF i > Len(s) THEN <<field>>
    ELSE IF s[i] = Colon THEN <<field>> \o SplitFrom(s, i + 1, << >>)
    ELSE SplitFrom(s, i + 1, Append(field, s[i]))

Split(s) == SplitFrom(s, 1, << >>)

\* int(x) / float(x) return a number exactly for a rendered number.
IsNumber(field) == Len(field) = 1 /\ field[1][1] = "num"

\* Mutant: viewed_at is the time of the flush (here 0), not the entry's.
ParseItem_StampsFlushTime(item) ==
    LET f == Split(item)
    IN  IF Len(f) = 3 /\ IsNumber(f[1]) /\ IsNumber(f[2]) /\ IsNumber(f[3])
        THEN <<[user_id |-> f[1][1][2], post_id |-> f[2][1][2], viewed_at |-> 0]>>
        ELSE << >>

\* The body of the for loop of flush_to_db: the PostView of one item, or
\* nothing when unpacking or a conversion raises ValueError.
ParseItem(item) ==
    LET f == Split(item)
    IN  IF Len(f) = 3 /\ IsNumber(f[1]) /\ IsNumber(f[2]) /\ IsNumber(f[3])
        THEN <<[user_id |-> f[1][1][2], post_id |-> f[2][1][2], viewed_at |-> f[3][1][2]]>>
        ELSE << >>

\* float(x) returns for a rendered number and for the text of a huge float.
IsFloat(field) == Len(field) = 1 /\ field[1][1] \in {"num", "huge"}

\* datetime.fromtimestamp(x) raises OverflowError for a float out of the range
\* of the platform's time_t.
FromTimestampOverflows(field) == field[1][1] = "huge"

\* The body of the for loop raises an exception `except (ValueError, TypeError)`
\* does not catch: unpacking and both int() succeed, float() succeeds, and
\* fromtimestamp raises OverflowError.
ParseRaises(item) ==
    LET f == Split(item)
    IN  /\ Len(f) = 3 /\ IsNumber(f[1]) /\ IsNumber(f[2])
        /\ IsFloat(f[3]) /\ FromTimestampOverflows(f[3])

\* views_to_create for the snapshot iterated in the order `items`.
RECURSIVE ViewsToCreate(_)
ViewsToCreate(items) ==
    IF items = << >> THEN << >>
    ELSE ParseItem(Head(items)) \o ViewsToCreate(Tail(items))

\* The orders in which a Python set may be iterated.
Orders(S) ==
    {f \in [1..Cardinality(S) -> S] : \A i, j \in 1..Cardinality(S) : i # j => f[i] # f[j]}

\* ---------------------------------------------------------------- durable store
\* unique_together = (("user", "post"),)
Conflicts(row, table) ==
    \E r \in DOMAIN table : r.user_id = row.user_id /\ r.post_id = row.post_id

\* One more copy of `row` in the table.
AddRow(row, table) ==
    IF row \in DOMAIN table THEN [table EXCEPT ![row] = @ + 1]
    ELSE table @@ (row :> 1)

\* Mutant: the table has no unique (user, post) constraint.
InsertIgnore_NoUnique(row, table) == AddRow(row, table)

\* Mutant: ON CONFLICT DO UPDATE, the new row replaces the one of its pair.
InsertIgnore_Upsert(row, table) ==
    LET others == {r \in DOMAIN table :
                      ~(r.user_id = row.user_id /\ r.post_id = row.post_id)}
    IN  [r \in others \cup {row} |-> 1]

\* INSERT ... ON CONFLICT DO NOTHING of one row.
InsertIgnore(row, table) ==
    IF Conflicts(row, table) THEN table ELSE AddRow(row, table)

RECURSIVE InsertAll(_, _)
InsertAll(rows, table) ==
    IF rows = << >> THEN table
    ELSE InsertAll(Tail(rows), InsertIgnore(Head(rows), table))

\* The foreign keys of PostView: user and post must exist.
ViolatesForeignKey(row) ==
    row.user_id \notin Users \/ row.post_id \notin ExistingPosts

\* PostView.bulk_create(rows, ignore_conflicts=True): one statement, all or nothing.
BulkCreate(rows, table) ==
    IF \E i \in 1..Len(rows) : ViolatesForeignKey(rows[i])
    THEN [raised |-> TRUE, table |-> table]
    ELSE [raised |-> FALSE, table |-> InsertAll(rows, table)]

\* ---------------------------------------------------------------- cache
\* The commands mark_viewed queues on the pipeline, in order.
RECURSIVE PipeCommands(_, _, _)
PipeCommands(user_id, post_ids, timestamp) ==
    IF post_ids = << >>
    THEN <<[op |-> "expire", user |-> user_id, member |-> << >>]>>
    ELSE <<[op |-> "sadd_viewed", user |-> user_id, member |-> <<Num(Head(post_ids))>>],
           [op |-> "sadd_pending", user |-> user_id,
            member |-> Encode(user_id, Head(post_ids), timestamp)]>>
         \o PipeCommands(user_id, Tail(post_ids), timestamp)

\* Mutant: the pipeline is built and executed for an empty list too.
mark_viewed_commands_NoEarlyReturn(user_id, post_ids, timestamp) ==
    PipeCommands(user_id, post_ids, timestamp)

\* The cache commands mark_viewed sends: `if not post_ids: return` comes before
\* the pipeline is made.
mark_viewed_commands(user_id, post_ids, timestamp) ==
    IF post_ids = << >> THEN << >>
    ELSE PipeCommands(user_id, post_ids, timestamp)

\* Mutant: EXPIRE ... NX, the lifetime is set only when the key has none.
ApplyCommand_ExpireOnce(cmd, c) ==
    CASE cmd.op = "sadd_viewed" ->
            [c EXCEPT !.viewed[cmd.user] = @ \cup {cmd.member}]
      [] cmd.op = "sadd_pending" ->
            [c EXCEPT !.pending = @ \cup {cmd.member}]
      [] OTHER ->
            [c EXCEPT !.ttl[cmd.user] =
                IF c.viewed[cmd.user] = {} THEN 0
                ELSE IF @ = 0 THEN VIEW_EXPIRY_SECONDS ELSE @]

\* One command applied to the cache c = [viewed, ttl, pending].
ApplyCommand(cmd, c) ==
    CASE cmd.op = "sadd_viewed" ->
            [c EXCEPT !.viewed[cmd.user] = @ \cup {cmd.member}]
      [] cmd.op = "sadd_pending" ->
            [c EXCEPT !.pending = @ \cup {cmd.member}]
      [] OTHER ->
            [c EXCEPT !.ttl[cmd.user] =
                IF c.viewed[cmd.user] = {} THEN 0 ELSE VIEW_EXPIRY_SECONDS]

RECURSIVE ApplyAll(_, _)
ApplyAll(cmds, c) ==
    IF cmds = << >> THEN c ELSE ApplyAll(Tail(cmds), ApplyCommand(Head(cmds), c))

\* Mutant: the commands are sent one by one, and a reader runs after the first.
PipeExecute_FirstOnly(cmds, c) == ApplyCommand(Head(cmds), c)

\* pipe.execute() of a transactional pipeline (MULTI/EXEC): every queued
\* command takes effect in one step.
PipeExecute(cmds, c) == ApplyAll(cmds, c)

Cache == [viewed |-> viewed, ttl |-> ttl, pending |-> pending]

\* ---------------------------------------------------------------- readers
\* int(x) of a string that is a rendered number.
IntOf(member) == member[1][2]

\* smembers of the user's key, each member converted with int().
get_viewed_posts(user_id) == {IntOf(member) : member \in viewed[user_id]}

\* Mutant: a miss in the cache falls back to the post_views table.
has_viewed_OrDurable(user_id, post_id) ==
    \/ <<Num(post_id)>> \in viewed[user_id]
    \/ \E r \in DOMAIN db : r.user_id = user_id /\ r.post_id = post_id

\* sismember of the user's key with the post id rendered as the client sends it.
has_viewed(user_id, post_id) == <<Num(post_id)>> \in viewed[user_id]

\* The cache commands filter_unviewed sends: none for an empty list.
filter_unviewed_commands(user_id, post_ids) ==
    IF post_ids = << >> THEN << >>
    ELSE <<[op |-> "smembers", user |-> user_id, member |-> << >>]>>

\* The members of a set of numbers in increasing order.
RECURSIVE SortedSeq(_)
SortedSeq(S) ==
    IF S = {} THEN << >>
    ELSE LET m == CHOOSE x \in S : \A y \in S : x <= y
         IN  <<m>> \o SortedSeq(S \ {m})

\* [pid for pid in post_ids if pid not in viewed]
RECURSIVE Unviewed(_, _)
Unviewed(post_ids, seen) ==
    IF post_ids = << >> THEN << >>
    ELSE IF Head(post_ids) \in seen THEN Unviewed(Tail(post_ids), seen)
    ELSE <<Head(post_ids)>> \o Unviewed(Tail(post_ids), seen)

\* Mutant: sorted(set(post_ids) - viewed).
filter_unviewed_SetDifference(user_id, post_ids) ==
    SortedSeq({post_ids[i] : i \in 1..Len(post_ids)} \ get_viewed_posts(user_id))

\* filter_unviewed: the early return, then the comprehension over post_ids.
filter_unviewed(user_id, post_ids) ==
    IF post_ids = << >> THEN << >>
    ELSE Unviewed(post_ids, get_viewed_posts(user_id))

\* ---------------------------------------------------------------- results
NoResult == [kind |-> "none", count |-> 0]
Flushed(n) == [kind |-> "flushed", count |-> n]
Failed == [kind |-> "error", count |-> 0]
\* The exception the loop caught is the OverflowError of the parsing loop.
\* The task ended with the CancelledError raised at the await it was at.
Cancelled(at) == [kind |-> "cancelled", count |-> 0, at |-> at]
OverflowFailed == [kind |-> "OverflowError", count |-> 0]

NoRetry == [on |-> FALSE, log |-> {}]

Idle == [op |-> "idle", user |-> 0, post |-> 0, pc |-> "", seen |-> FALSE]
NoResponse == [op |-> "none", user |-> 0, post |-> 0, status |-> 0, liked |-> FALSE, like_count |-> 0]
NoToggle == [on |-> FALSE, user |-> 0, post |-> 0, was |-> {}, done |-> 0]
NoTrip == [on |-> FALSE, user |-> 0, ids |-> {}]

\* Entries something other than mark_viewed may leave in the log: two fields
\* only, and a post id that is no number.
\* The posts, their likes and the requests on them.
postState == <<liked_by, is_deleted, calls, response, toggled>>

\* Everything but the outcome of the last request.
cacheStoreJob == <<viewed, ttl, pending, db, pc, snap, result, windowAdds, retry, quiet, dropped,
                   trip, idle>>

Malformed == {<<Num(1), Colon, Num(10)>>, <<Num(1), Colon, Junk, Colon, Num(0)>>}

\* An entry the same may leave: three fields, a timestamp no datetime can hold.
Overflowing == {<<Num(1), Colon, Num(20), Colon, Huge>>}

WellFormed(item) == ParseItem(item) # << >>

Parsed(S) == {e \in S : WellFormed(e)}

\* ---------------------------------------------------------------- initial state
Init ==
    /\ viewed = [u \in Users |-> {}]
    /\ ttl = [u \in Users |-> 0]
    /\ pending = {}
    /\ db = << >>
    /\ pc = "flush"
    /\ snap = {}
    /\ result = NoResult
    /\ windowAdds = {}
    /\ retry = NoRetry
    /\ quiet = FALSE
    /\ dropped = {}
    /\ trip = NoTrip
    /\ idle = [u \in Users |-> 0]
    /\ raised = FALSE
    /\ liked_by = [p \in ExistingPosts |-> {}]
    /\ is_deleted = [p \in ExistingPosts |-> FALSE]
    /\ calls = [i \in Slots |-> Idle]
    /\ response = NoResponse
    /\ toggled = NoToggle

\* ---------------------------------------------------------------- mark_viewed
\* Mutant: the call queues the pending entries only, not the viewed set.
MarkViewed_PendingOnly(user_id, post_ids, timestamp) ==
    IF post_ids = << >>
    THEN UNCHANGED vars
    ELSE /\ Cardinality(pending \cup {Encode(user_id, post_ids[i], timestamp) :
                                        i \in 1..Len(post_ids)}) <= MaxPending
         /\ pending' = pending \cup {Encode(user_id, post_ids[i], timestamp) :
                                       i \in 1..Len(post_ids)}
         /\ windowAdds' = IF pc \in {"write", "clear"}
                          THEN windowAdds \cup (pending' \ pending)
                          ELSE windowAdds
         /\ retry' = NoRetry
         /\ quiet' = FALSE
         /\ dropped' = {}
         /\ trip' = IF pending = {}
                    THEN [on |-> TRUE, user |-> user_id,
                          ids |-> {post_ids[i] : i \in 1..Len(post_ids)}]
                    ELSE NoTrip
         /\ UNCHANGED <<viewed, ttl, db, pc, snap, result, idle, raised, postState>>

\* What `await pipe.execute()` does to the cache when the transaction is
\* executed.
Executed(user_id, post_ids, timestamp) ==
    LET c == PipeExecute(mark_viewed_commands(user_id, post_ids, timestamp), Cache)
    IN  /\ Cardinality(c.pending) <= MaxPending
        /\ viewed' = c.viewed
        /\ ttl' = c.ttl
        /\ pending' = c.pending
        /\ windowAdds' = IF pc \in {"write", "clear"}
                         THEN windowAdds \cup (c.pending \ pending)
                         ELSE windowAdds
        /\ retry' = NoRetry
        /\ quiet' = FALSE
        /\ dropped' = {}
        /\ trip' = IF pending = {}
                   THEN [on |-> TRUE, user |-> user_id,
                         ids |-> {post_ids[i] : i \in 1..Len(post_ids)}]
                   ELSE NoTrip
        /\ idle' = [idle EXCEPT ![user_id] = 0]
        /\ UNCHANGED <<db, pc, snap, result>>

\* Whether mark_viewed raises to its caller, given whether pipe.execute()
\* raises: the empty list returns before any cache command, and nothing
\* catches the exception of execute().
mark_viewed_raises_Swallowed(post_ids, executeRaises) == FALSE

mark_viewed_raises(post_ids, executeRaises) == post_ids # << >> /\ executeRaises

\* Whether has_viewed raises to its caller, given whether sismember raises.
has_viewed_raises(sismemberRaises) == sismemberRaises

\* track_views -> mark_viewed: an empty list returns at once; otherwise the
\* commands are queued with the current time and `await pipe.execute()` sends
\* them. Nothing of the call is visible before execute() takes effect.
MarkViewed(user_id, post_ids, timestamp) ==
    /\ raised' = mark_viewed_raises(post_ids, FALSE)
    /\ UNCHANGED postState
    /\ IF mark_viewed_commands(user_id, post_ids, timestamp) = << >>
       THEN UNCHANGED cacheStoreJob
       ELSE Executed(user_id, post_ids, timestamp)

\* mark_viewed when `await pipe.execute()` raises (the cache is unreachable, or
\* the connection is lost before or after the server ran the transaction).
MarkViewedFail(user_id, post_ids, timestamp) ==
    /\ mark_viewed_commands(user_id, post_ids, timestamp) # << >>
    /\ raised' = mark_viewed_raises(post_ids, TRUE)
    /\ UNCHANGED postState
    /\ \/ UNCHANGED cacheStoreJob
       \/ Executed(user_id, post_ids, timestamp)

\* has_viewed when `await redis.sismember(...)` raises.
HasViewedFail ==
    /\ raised' = has_viewed_raises(TRUE)
    /\ UNCHANGED postState
    /\ UNCHANGED cacheStoreJob

\* ---------------------------------------------------------------- flush_to_db
\* Mutant: the snapshot is one member of the log (a pop), not the whole set.
FlushSnapshot_OneMember ==
    /\ pc = "flush"
    /\ \A item \in pending : ~ParseRaises(item)
    /\ IF pending = {}
       THEN /\ pc' = "sleep"
            /\ result' = Flushed(0)
            /\ snap' = {}
            /\ quiet' = TRUE
       ELSE /\ \E e \in pending :
                 /\ snap' = {e}
                 /\ pc' = IF WellFormed(e) THEN "write" ELSE "clear"
            /\ UNCHANGED <<result, quiet>>
    /\ windowAdds' = {}
    /\ UNCHANGED <<viewed, ttl, pending, db, retry, dropped, trip, idle, raised, postState>>

\* Mutant: no early return, a tick with an empty snapshot goes on to the delete.
FlushSnapshot_NoEarlyReturn ==
    /\ pc = "flush"
    /\ \A item \in pending : ~ParseRaises(item)
    /\ pc' = IF Parsed(pending) # {} THEN "write" ELSE "clear"
    /\ snap' = pending
    /\ windowAdds' = {}
    /\ UNCHANGED <<viewed, ttl, pending, db, result, retry, quiet, dropped, trip, idle, raised, postState>>

\* smembers, the early return on an empty snapshot, and the parsing loop when
\* no item makes it raise.
FlushSnapshot ==
    /\ pc = "flush"
    /\ \A item \in pending : ~ParseRaises(item)
    /\ IF pending = {}
       THEN /\ pc' = "sleep"
            /\ result' = Flushed(0)
            /\ snap' = {}
            /\ quiet' = TRUE
       ELSE /\ pc' = IF Parsed(pending) # {} THEN "write" ELSE "clear"
            /\ snap' = pending
            /\ UNCHANGED <<result, quiet>>
    /\ windowAdds' = {}
    /\ UNCHANGED <<viewed, ttl, pending, db, retry, dropped, trip, idle, raised, postState>>

\* smembers raises: the loop catches and prints the exception.
FlushSnapshotFail ==
    /\ pc = "flush"
    /\ pc' = "sleep"
    /\ result' = Failed
    /\ UNCHANGED <<viewed, ttl, pending, db, snap, windowAdds, retry, quiet, dropped, trip, idle, raised, postState>>

\* smembers returns and the parsing loop reaches an item whose conversion
\* raises OverflowError: flush_to_db propagates it, the loop catches and prints.
FlushParseRaise ==
    /\ pc = "flush"
    /\ \E item \in pending : ParseRaises(item)
    /\ pc' = "sleep"
    /\ result' = OverflowFailed
    /\ UNCHANGED <<viewed, ttl, pending, db, snap, windowAdds, retry, quiet, dropped, trip, idle, raised, postState>>

\* Mutant: the tick goes on to the clear without having inserted anything.
FlushWriteOk_SkipsInsert ==
    /\ pc = "write"
    /\ pc' = "clear"
    /\ UNCHANGED <<viewed, ttl, pending, db, snap, result, windowAdds, retry, quiet, dropped, trip, idle, raised, postState>>

\* bulk_create returns.
FlushWriteOk ==
    /\ pc = "write"
    /\ \E order \in Orders(snap) :
          LET r == BulkCreate(ViewsToCreate(order), db)
          IN  /\ ~r.raised
              /\ db' = r.table
    /\ pc' = "clear"
    /\ UNCHANGED <<viewed, ttl, pending, snap, result, windowAdds, retry, quiet, dropped, trip, idle, raised, postState>>

\* Mutant: the log is deleted in a `finally`, also when bulk_create raised.
FlushWriteFail_Clears ==
    /\ pc = "write"
    /\ pc' = "sleep"
    /\ result' = Failed
    /\ snap' = {}
    /\ windowAdds' = {}
    /\ pending' = {}
    /\ retry' = [on |-> TRUE, log |-> pending]
    /\ UNCHANGED <<viewed, ttl, db, quiet, dropped, trip, idle, raised, postState>>

\* Mutant: a failed tick forgets the entries of its snapshot.
FlushWriteFail_DropsSnapshot ==
    /\ pc = "write"
    /\ pc' = "sleep"
    /\ result' = Failed
    /\ snap' = {}
    /\ windowAdds' = {}
    /\ pending' = pending \ snap
    /\ retry' = [on |-> TRUE, log |-> pending]
    /\ UNCHANGED <<viewed, ttl, db, quiet, dropped, trip, idle, raised, postState>>

\* Mutant: the loop has no `except Exception`, so the job dies with the error.
FlushWriteFail_Propagates ==
    /\ pc = "write"
    /\ pc' = "crashed"
    /\ result' = Failed
    /\ snap' = {}
    /\ windowAdds' = {}
    /\ retry' = [on |-> TRUE, log |-> pending]
    /\ UNCHANGED <<viewed, ttl, pending, db, quiet, dropped, trip, idle, raised, postState>>

\* bulk_create raises (a rejected row, no connection, a timeout): flush_to_db
\* propagates, the loop catches and prints.
FlushWriteFail ==
    /\ pc = "write"
    /\ pc' = "sleep"
    /\ result' = Failed
    /\ snap' = {}
    /\ windowAdds' = {}
    /\ retry' = [on |-> TRUE, log |-> pending]
    /\ UNCHANGED <<viewed, ttl, pending, db, quiet, dropped, trip, idle, raised, postState>>

\* Mutant: only the members of the snapshot are removed (srem), not the key.
FlushClear_SnapshotOnly ==
    /\ pc = "clear"
    /\ pending' = pending \ snap
    /\ pc' = "sleep"
    /\ result' = Flushed(Cardinality(Parsed(snap)))
    /\ snap' = {}
    /\ windowAdds' = {}
    /\ retry' = NoRetry
    /\ quiet' = (pending \ snap = {})
    /\ dropped' = {}
    /\ trip' = NoTrip
    /\ UNCHANGED <<viewed, ttl, db, idle, raised, postState>>

\* Mutant: only the entries that were written are removed from the log.
FlushClear_ParsedOnly ==
    /\ pc = "clear"
    /\ pending' = pending \ Parsed(snap)
    /\ pc' = "sleep"
    /\ result' = Flushed(Cardinality(Parsed(snap)))
    /\ snap' = {}
    /\ windowAdds' = {}
    /\ retry' = NoRetry
    /\ quiet' = (pending \ Parsed(snap) = {})
    /\ dropped' = {}
    /\ trip' = NoTrip
    /\ UNCHANGED <<viewed, ttl, db, idle, raised, postState>>

\* Mutant: the count returned is the number of distinct (user, post) pairs.
FlushClear_CountsPairs ==
    /\ pc = "clear"
    /\ pending' = {}
    /\ pc' = "sleep"
    /\ result' = Flushed(Cardinality({<<ParseItem(e)[1].user_id, ParseItem(e)[1].post_id>> :
                                        e \in Parsed(snap)}))
    /\ snap' = {}
    /\ windowAdds' = {}
    /\ retry' = NoRetry
    /\ quiet' = TRUE
    /\ dropped' = pending \ snap
    /\ trip' = NoTrip
    /\ UNCHANGED <<viewed, ttl, db, idle, raised, postState>>

\* Mutant: the clear also deletes the viewed sets of the users it flushed.
FlushClear_DropsViewed ==
    /\ pc = "clear"
    /\ pending' = {}
    /\ pc' = "sleep"
    /\ result' = Flushed(Cardinality(Parsed(snap)))
    /\ snap' = {}
    /\ windowAdds' = {}
    /\ retry' = NoRetry
    /\ quiet' = TRUE
    /\ dropped' = pending \ snap
    /\ trip' = NoTrip
    /\ viewed' = [u \in Users |->
                     IF \E e \in Parsed(snap) : ParseItem(e)[1].user_id = u
                     THEN {} ELSE viewed[u]]
    /\ ttl' = [u \in Users |->
                  IF \E e \in Parsed(snap) : ParseItem(e)[1].user_id = u
                  THEN 0 ELSE ttl[u]]
    /\ idle' = [u \in Users |->
                   IF \E e \in Parsed(snap) : ParseItem(e)[1].user_id = u
                   THEN 0 ELSE idle[u]]
    /\ UNCHANGED <<db, raised, postState>>

\* Mutant: the delete of the log is missing.
FlushClear_KeepsLog ==
    /\ pc = "clear"
    /\ pc' = "sleep"
    /\ result' = Flushed(Cardinality(Parsed(snap)))
    /\ snap' = {}
    /\ windowAdds' = {}
    /\ retry' = NoRetry
    /\ quiet' = TRUE
    /\ trip' = NoTrip
    /\ UNCHANGED <<viewed, ttl, pending, db, dropped, idle, raised, postState>>

\* redis.delete(pending_views_key()) and the return of the count.
FlushClear ==
    /\ pc = "clear"
    /\ pending' = {}
    /\ pc' = "sleep"
    /\ result' = Flushed(Cardinality(Parsed(snap)))
    /\ snap' = {}
    /\ windowAdds' = {}
    /\ retry' = NoRetry
    /\ quiet' = TRUE
    /\ dropped' = pending \ snap
    /\ trip' = NoTrip
    /\ UNCHANGED <<viewed, ttl, db, idle, raised, postState>>

\* Mutant: the failed delete is taken to have emptied the log.
FlushClearFail_LosesLog ==
    /\ pc = "clear"
    /\ pc' = "sleep"
    /\ result' = Failed
    /\ pending' = {}
    /\ snap' = {}
    /\ windowAdds' = {}
    /\ retry' = NoRetry
    /\ UNCHANGED <<viewed, ttl, db, quiet, dropped, trip, idle, raised, postState>>

\* redis.delete raises.
FlushClearFail ==
    /\ pc = "clear"
    /\ pc' = "sleep"
    /\ result' = Failed
    /\ snap' = {}
    /\ windowAdds' = {}
    /\ retry' = NoRetry
    /\ UNCHANGED <<viewed, ttl, pending, db, quiet, dropped, trip, idle, raised, postState>>

\* ---------------------------------------------------------------- flush_views_job
\* asyncio.sleep(300) returns and the loop starts the next tick.
Wake ==
    /\ pc = "sleep"
    /\ pc' = "flush"
    /\ result' = NoResult
    /\ dropped' = {}
    /\ UNCHANGED <<viewed, ttl, pending, db, snap, windowAdds, retry, quiet, trip, idle, raised, postState>>

\* Mutant: a cancellation during the bulk write also removes the snapshot's
\* entries from the log.
Cancel_ClearsWhileWriting ==
    /\ pc # "cancelled"
    /\ pc' = "cancelled"
    /\ snap' = {}
    /\ windowAdds' = {}
    /\ retry' = NoRetry
    /\ result' = Cancelled(pc)
    /\ \/ UNCHANGED <<db, pending>>
       \/ /\ pc = "write"
          /\ pending' = pending \ snap
          /\ UNCHANGED db
       \/ /\ pc = "clear"
          /\ pending' = {}
          /\ UNCHANGED db
    /\ dropped' = {}
    /\ trip' = NoTrip
    /\ UNCHANGED <<viewed, ttl, quiet, idle, raised, postState>>

\* lifespan shutdown: flush_task.cancel(). The await in progress is abandoned;
\* a statement already sent may or may not have taken effect.
Cancel ==
    /\ pc # "cancelled"
    /\ pc' = "cancelled"
    /\ snap' = {}
    /\ windowAdds' = {}
    /\ retry' = NoRetry
    /\ result' = Cancelled(pc)
    /\ \/ UNCHANGED <<db, pending>>
       \/ /\ pc = "write"
          /\ \E order \in Orders(snap) :
                LET r == BulkCreate(ViewsToCreate(order), db)
                IN  ~r.raised /\ db' = r.table
          /\ UNCHANGED pending
       \/ /\ pc = "clear"
          /\ pending' = {}
          /\ UNCHANGED db
    /\ dropped' = {}
    /\ trip' = NoTrip
    /\ UNCHANGED <<viewed, ttl, quiet, idle, raised, postState>>

\* Mutant: startup creates a task although the job of the process is running.
Restart_WhileRunning ==
    /\ pc \in {"cancelled", "write", "clear"}
    /\ pc' = "flush"
    /\ result' = NoResult
    /\ UNCHANGED <<viewed, ttl, pending, db, snap, windowAdds, retry, quiet, dropped, trip, idle, raised, postState>>

\* lifespan startup of the next process: asyncio.create_task(flush_views_job()).
Restart ==
    /\ pc = "cancelled"
    /\ pc' = "flush"
    /\ result' = NoResult
    /\ UNCHANGED <<viewed, ttl, pending, db, snap, windowAdds, retry, quiet, dropped, trip, idle, raised, postState>>

\* ---------------------------------------------------------------- environment
\* ElapseStep seconds pass: the remaining lifetime of every viewed set goes
\* down by as much, and Redis deletes the keys whose lifetime has run out.
Elapse ==
    /\ \E u \in Users : ttl[u] > 0
    /\ ttl' = [u \in Users |-> IF ttl[u] > ElapseStep THEN ttl[u] - ElapseStep ELSE 0]
    /\ viewed' = [u \in Users |-> IF ttl[u] > ElapseStep THEN viewed[u] ELSE {}]
    /\ idle' = [u \in Users |-> IF ttl[u] > ElapseStep THEN idle[u] + ElapseStep ELSE 0]
    /\ dropped' = {}
    /\ trip' = NoTrip
    /\ UNCHANGED <<pending, db, pc, snap, result, windowAdds, retry, quiet, raised, postState>>

\* Something other than mark_viewed leaves a member in the log.
Corrupt(item) ==
    /\ item \notin pending
    /\ Cardinality(pending) < MaxPending
    /\ pending' = pending \cup {item}
    /\ retry' = NoRetry
    /\ quiet' = FALSE
    /\ dropped' = {}
    /\ trip' = NoTrip
    /\ UNCHANGED <<viewed, ttl, db, pc, snap, result, windowAdds, idle, raised, postState>>

\* ---------------------------------------------------------------- PostService
\* The view pipeline, which no request on a post touches.
viewState == <<cacheStoreJob, raised>>

Respond(i, status, liked, like_count) ==
    /\ response' = [op |-> calls[i].op, user |-> calls[i].user, post |-> calls[i].post,
                    status |-> status, liked |-> liked, like_count |-> like_count]
    /\ calls' = [calls EXCEPT ![i] = Idle]

\* The router hands a request to the service: nothing is read yet.
Receive(i, q) ==
    /\ calls[i] = Idle
    /\ calls' = [calls EXCEPT ![i] = [op |-> q[1], user |-> q[2], post |-> q[3],
                                         pc |-> "get", seen |-> FALSE]]
    /\ toggled' = IF q[1] = "toggle" /\ q[3] \in ExistingPosts /\ (~toggled.on \/ toggled.done >= 2)
                  THEN [on |-> TRUE, user |-> q[2], post |-> q[3], was |-> liked_by[q[3]],
                        done |-> 0]
                  ELSE toggled
    /\ UNCHANGED <<liked_by, is_deleted, response, viewState>>

\* `await Post.get_or_none(id=post_id, is_deleted=False)` and the statements up
\* to the next await: 404 when no such row is visible; get_post answers;
\* update_post and delete_post check the ownership (403) and keep the row they
\* read; the like operations go on to their next query.
GetOrNone(i) ==
    /\ calls[i].pc = "get"
    /\ LET c == calls[i]
       IN  IF c.post \notin ExistingPosts \/ is_deleted[c.post]
           THEN Respond(i, 404, FALSE, 0)
           ELSE CASE c.op = "get" ->
                       Respond(i, 200, c.user \in liked_by[c.post], Cardinality(liked_by[c.post]))
                  [] c.op = "update" ->
                       IF Author[c.post] # c.user
                       THEN Respond(i, 403, FALSE, 0)
                       ELSE /\ calls' = [calls EXCEPT ![i].pc = "save",
                                                      ![i].seen = is_deleted[c.post]]
                            /\ UNCHANGED response
                  [] c.op = "delete" ->
                       IF Author[c.post] # c.user /\ c.user \notin Admins
                       THEN Respond(i, 403, FALSE, 0)
                       ELSE /\ calls' = [calls EXCEPT ![i].pc = "save", ![i].seen = TRUE]
                            /\ UNCHANGED response
                  [] c.op = "unlike" ->
                       /\ calls' = [calls EXCEPT ![i].pc = "remove"]
                       /\ UNCHANGED response
                  [] OTHER ->
                       /\ calls' = [calls EXCEPT ![i].pc = "exists"]
                       /\ UNCHANGED response
    /\ UNCHANGED <<liked_by, is_deleted, toggled, viewState>>

\* `await post.liked_by.filter(id=user.id).exists()` of like_post and
\* toggle_like, and the branch taken on its answer.
Exists(i) ==
    /\ calls[i].pc = "exists"
    /\ LET c == calls[i]
           liked == c.user \in liked_by[c.post]
       IN  calls' = [calls EXCEPT
                        ![i].seen = liked,
                        ![i].pc = IF ~liked THEN "add"
                                  ELSE IF c.op = "toggle" THEN "remove" ELSE "count"]
    /\ UNCHANGED <<liked_by, is_deleted, response, toggled, viewState>>

\* `await post.liked_by.add(user)`: a row of post_likes unless there is one.
Add(i) ==
    /\ calls[i].pc = "add"
    /\ liked_by' = [liked_by EXCEPT ![calls[i].post] = @ \cup {calls[i].user}]
    /\ calls' = [calls EXCEPT ![i].pc = "count"]
    /\ UNCHANGED <<is_deleted, response, toggled, viewState>>

\* `await post.liked_by.remove(user)`
Remove(i) ==
    /\ calls[i].pc = "remove"
    /\ liked_by' = [liked_by EXCEPT ![calls[i].post] = @ \ {calls[i].user}]
    /\ calls' = [calls EXCEPT ![i].pc = "count"]
    /\ UNCHANGED <<is_deleted, response, toggled, viewState>>

\* `await post.liked_by.all().count()` and the return of "liked" and "like_count".
Count(i) ==
    /\ calls[i].pc = "count"
    /\ LET c == calls[i]
       IN  /\ Respond(i, 200,
                      IF c.op = "like" THEN TRUE
                      ELSE IF c.op = "unlike" THEN FALSE ELSE ~c.seen,
                      Cardinality(liked_by[c.post]))
           /\ toggled' = IF c.op = "toggle" /\ toggled.on /\ toggled.user = c.user
                            /\ toggled.post = c.post
                         THEN [toggled EXCEPT !.done = @ + 1]
                         ELSE toggled
    /\ UNCHANGED <<liked_by, is_deleted, viewState>>

\* `await post.save()` of delete_post (after post.is_deleted = True) and of
\* update_post: save() without update_fields writes every column of the row
\* the request holds, the is_deleted it read included.
Save(i) ==
    /\ calls[i].pc = "save"
    /\ is_deleted' = [is_deleted EXCEPT ![calls[i].post] = calls[i].seen]
    /\ Respond(i, IF calls[i].op = "delete" THEN 204 ELSE 200, FALSE, 0)
    /\ toggled' = IF calls[i].op = "delete" THEN NoToggle ELSE toggled
    /\ UNCHANGED <<liked_by, viewState>>

\* ---------------------------------------------------------------- specification
SchedulerStep ==
    \/ Wake
    \/ FlushSnapshotFail
    \/ FlushParseRaise
    \/ FlushSnapshot
    \/ FlushWriteFail
    \/ FlushWriteOk
    \/ FlushClearFail
    \/ FlushClear

Next ==
    \/ \E r \in Requests, t \in Times : MarkViewed(r[1], r[2], t)
    \/ FlushSnapshot
    \/ FlushSnapshotFail
    \/ FlushParseRaise
    \/ FlushWriteOk
    \/ FlushWriteFail
    \/ FlushClear
    \/ FlushClearFail
    \/ Wake
    \/ Cancel
    \/ Restart
    \/ Elapse
    \/ \E item \in Malformed \cup Overflowing : Corrupt(item)

Spec == Init /\ [][Next]_vars

\* The event loop runs the flush job whenever it can take a step (its awaits
\* return), and a cache command that is retried for ever succeeds in the end.
\* Nothing is assumed of the host (Cancel, Restart), of the requests or of the
\* durable store.
LiveSpec ==
    /\ Spec
    /\ WF_vars(SchedulerStep)
    /\ SF_vars(FlushSnapshot)
    /\ SF_vars(FlushClear)

\* Requests and ticks with cache failures on both paths (the host's shutdown,
\* the passing of time and foreign writers of the log are left out).
CallNext ==
    \/ \E r \in Requests, t \in Times : MarkViewed(r[1], r[2], t)
    \/ \E r \in Requests, t \in Times : MarkViewedFail(r[1], r[2], t)
    \/ HasViewedFail
    \/ Wake
    \/ FlushSnapshotFail
    \/ FlushSnapshot
    \/ FlushWriteFail
    \/ FlushWriteOk
    \/ FlushClearFail
    \/ FlushClear

CallSpec == Init /\ [][CallNext]_vars

\* The requests on posts, served concurrently by the event loop: each yields
\* at its awaits.
PostNext ==
    \E i \in Slots :
        \/ \E q \in PostRequests : Receive(i, q)
        \/ GetOrNone(i)
        \/ Exists(i)
        \/ Add(i)
        \/ Remove(i)
        \/ Count(i)
        \/ Save(i)

PostSpec == Init /\ [][PostNext]_vars

\* ================================================================ properties
EntryUser(e) == ParseItem(e)[1].user_id
EntryPost(e) == ParseItem(e)[1].post_id

\* The durable store holds a ViewRecord for (u, p).
InDb(u, p) == \E r \in DOMAIN db : r.user_id = u /\ r.post_id = p

\* The durable store holds a ViewRecord for the pair of the well-formed entry e.
Durable(e) == InDb(EntryUser(e), EntryPost(e))

\* Two entries of the same (user, post) with different timestamps.
SamePair(e1, e2) ==
    /\ e1 # e2
    /\ WellFormed(e1) /\ WellFormed(e2)
    /\ EntryUser(e1) = EntryUser(e2) /\ EntryPost(e1) = EntryPost(e2)

\* The step is the clear of a tick that returns its count.
ClearStep == pc = "clear" /\ pc' = "sleep" /\ result'.kind = "flushed"

\* ---------------------------------------------------------------- C1
\* C1: in every reachable state the durable store holds at most one ViewRecord
\* per (user_id, post_id), whatever mark_viewed calls and flush ticks
\* (successful, failed or cancelled) came before, and whether two entries of
\* one pair were flushed in one tick or in two.
C1_AtMostOneRecordPerPair ==
    \A r1 \in DOMAIN db :
        /\ db[r1] = 1
        /\ \A r2 \in DOMAIN db :
              (r1.user_id = r2.user_id /\ r1.post_id = r2.post_id) => r1 = r2

\* Two entries of one pair were in the snapshot whose bulk write has returned.
C1_Witness ==
    /\ pc = "clear"
    /\ \E e1, e2 \in snap : SamePair(e1, e2) /\ Durable(e1)

\* ---------------------------------------------------------------- C2
\* The entries mark_viewed can log.
LoggedEntries ==
    UNION {{Encode(r[1], r[2][i], t) : i \in 1..Len(r[2]), t \in Times} : r \in Requests}

\* The entry was logged after the snapshot of the running tick.
InWindow(e) == pc \in {"write", "clear"} /\ e \notin snap

\* The scheduler keeps ticking: it is not cancelled for good.
KeepsTicking == []<>(pc = "flush")

\* The bulk write of the running tick has returned (FlushWriteOk is the one
\* step that leads there).
WriteReturned == pc = "clear" /\ Parsed(snap) # {}

\* Durable writes eventually succeed: if ticks start again and again on a log
\* that holds an entry to write, a bulk write returns again and again.
WritesEventuallySucceed == []<>(pc = "flush" /\ Parsed(pending) # {}) => []<>WriteReturned

\* C2 as stated: provided the scheduler keeps ticking and durable writes
\* eventually succeed, every entry mark_viewed adds to the pending log leads
\* to a ViewRecord of its (user_id, post_id) in the durable store.
C2_Original ==
    (KeepsTicking /\ WritesEventuallySucceed) =>
        \A e \in LoggedEntries : (e \in pending) ~> Durable(e)

\* C2 as amended: the same for every entry that is in the pending log outside
\* the window between the snapshot read and the clear of a running tick (an
\* entry logged inside that window may be deleted by the clear unwritten).
C2_EventuallyDurable ==
    (KeepsTicking /\ WritesEventuallySucceed) =>
        \A e \in LoggedEntries : (e \in pending /\ ~InWindow(e)) ~> Durable(e)

\* An entry logged while the job slept is durable after a tick that survived a
\* failed write before.
C2_Witness ==
    /\ pc = "clear"
    /\ retry.on
    /\ \E e \in snap \cap LoggedEntries : Durable(e)

\* ---------------------------------------------------------------- C3
\* C3 as stated: whenever an entry leaves the pending log, a bulk write that
\* included that entry has returned earlier in the same tick.
C3_Original ==
    [][\A e \in pending \ pending' :
          pc = "clear" /\ e \in Parsed(snap) /\ Durable(e)]_vars

\* C3 as amended: entries leave the pending log only at the clear step of a
\* tick, hence after the bulk write of that tick (if it had a row to write)
\* returned without raising; every entry of the snapshot that parses has then
\* been written. Entries that do not parse, and entries logged after the
\* snapshot, leave with the same clear without having been written.
C3_DestroyedOnlyAfterWrite ==
    [][pending \ pending' # {} =>
          /\ pc = "clear"
          /\ \A e \in Parsed(snap) : Durable(e)]_vars

\* A tick has written its parsed entries and then cleared the log.
C3_Witness == pc = "sleep" /\ result.kind = "flushed" /\ result.count > 0

\* ---------------------------------------------------------------- C4
\* C4: when the bulk write raises, the pending log is left as it was, the loop
\* catches the error and goes to sleep; and, nothing being logged in between,
\* the next tick whose write succeeds writes exactly the parsed entries of that
\* log and returns their number.
C4_WriteFailureRetried ==
    /\ [][(pc = "write" /\ pc' \notin {"write", "clear", "cancelled"}) =>
             /\ pending' = pending
             /\ pc' = "sleep"
             /\ result' = Failed]_vars
    /\ [][(retry.on /\ pc = "write" /\ pc' = "clear") =>
             /\ snap = retry.log
             /\ \A e \in Parsed(retry.log) : Durable(e)']_vars
    /\ [][(retry.on /\ ClearStep) =>
             /\ snap = retry.log
             /\ result'.count = Cardinality(Parsed(retry.log))
             /\ pending' = {}]_vars

\* The write of a retried snapshot has returned.
C4_Witness == retry.on /\ pc = "clear" /\ Cardinality(Parsed(snap)) = 2

\* ---------------------------------------------------------------- C5
\* C5: the clear of a tick deletes the whole pending log, the entries logged
\* after the snapshot included, writes nothing to the durable store and leaves
\* the viewed sets alone: an entry logged between snapshot and clear is gone
\* without a durable row while its post stays in the viewed set.
C5_ClearDeletesWholeLog ==
    [][ClearStep =>
          /\ pending' = {}
          /\ dropped' = pending \ snap
          /\ db' = db
          /\ viewed' = viewed]_vars

\* An entry logged by mark_viewed after the snapshot has been deleted, no row
\* for its pair is in the durable store, and its post is in the viewed set.
C5_Witness ==
    /\ pc = "sleep"
    /\ \E e \in dropped :
          /\ WellFormed(e)
          /\ ~Durable(e)
          /\ EntryPost(e) \in get_viewed_posts(EntryUser(e))

\* ---------------------------------------------------------------- C6
\* C6: a well-formed entry that was not logged between the snapshot read and
\* the clear of the running tick leaves the pending log only when it was in
\* the snapshot and the bulk write holding it has returned.
C6_LossConfinedToWindow ==
    [][\A e \in pending \ pending' :
          (WellFormed(e) /\ e \notin windowAdds) =>
              (pc = "clear" /\ e \in snap /\ Durable(e))]_vars

\* A tick is about to clear a log that holds a written snapshot entry and an
\* entry logged after the snapshot.
C6_Witness ==
    /\ pc = "clear"
    /\ \E e \in Parsed(snap) : Durable(e)
    /\ windowAdds \cap pending # {}

\* ---------------------------------------------------------------- C7
\* A pending entry the durable store rejects: its post has no row.
Poison(e) == WellFormed(e) /\ ViolatesForeignKey(ParseItem(e)[1])

\* The durable store accepts every row of the bulk write the tick is about to
\* issue (FlushWriteOk is enabled).
CanWrite == pc = "write" /\ \A e \in Parsed(snap) : ~Poison(e)

\* The host never cancels the job.
NeverCancelled == [](pc # "cancelled")

\* The log never holds an entry whose conversion raises.
NoOverflowingEntry == [](\A x \in pending : ~ParseRaises(x))

\* C7 as stated: with the job never cancelled, no entry that makes the parsing
\* raise, and every write the durable store can accept succeeding in the end,
\* an entry of an existing post that
\* shares the pending log with an entry the durable store rejects is still
\* durably persisted and removed from the log.
C7_ProgressDespiteRejectedEntry ==
    (NeverCancelled /\ NoOverflowingEntry /\ ([]<>CanWrite => []<>WriteReturned)) =>
        \A e \in LoggedEntries :
            (e \in pending /\ ~Poison(e) /\ ~InWindow(e) /\ \E x \in pending : Poison(x))
                ~> (Durable(e) /\ e \notin pending)

\* ---------------------------------------------------------------- C8
Flushing == {"flush", "write", "clear"}

\* C8: the job is always flushing, sleeping or cancelled by the host; a tick,
\* however it ends (a count, an empty log, an error of the cache or of the
\* durable store), goes to sleep, a sleep goes to the next tick, and only the
\* host's cancel stops the loop; every tick ends and every sleep ends unless
\* the host cancels.
C8_LoopAlternatesForever ==
    /\ [](pc \in Flushing \cup {"sleep", "cancelled"})
    /\ [][(pc \in Flushing /\ pc' \notin Flushing) => pc' \in {"sleep", "cancelled"}]_vars
    /\ [][(pc = "sleep" /\ pc' # "sleep") => pc' \in {"flush", "cancelled"}]_vars
    /\ [][(pc # "cancelled" /\ pc' = "cancelled") => Cancel]_vars
    /\ (pc \in Flushing) ~> (pc \in {"sleep", "cancelled"})
    /\ (pc = "sleep") ~> (pc \in {"flush", "cancelled"})

\* The job sleeps after a tick that failed.
C8_Witness == pc = "sleep" /\ result = Failed /\ pending # {}

\* ---------------------------------------------------------------- C9
\* The request whose batch the step applies.
AppliesBatch(r, t) ==
    /\ r[2] # << >>
    /\ viewed' = [viewed EXCEPT ![r[1]] = @ \cup {<<Num(r[2][i])>> : i \in 1..Len(r[2])}]
    /\ pending' = pending \cup {Encode(r[1], r[2][i], t) : i \in 1..Len(r[2])}
    /\ ttl' = [ttl EXCEPT ![r[1]] = VIEW_EXPIRY_SECONDS]

\* C9: the cache writes of one mark_viewed call take effect in one step. A step
\* that adds a post to a viewed set, or a well-formed entry to the log, applies
\* a whole batch: every post id of the call, every pending entry and the TTL.
\* In no state does a viewed set hold a post without its TTL being set.
C9_BatchAtomic ==
    /\ [][(\/ \E u \in Users : ~(viewed'[u] \subseteq viewed[u])
           \/ Parsed(pending' \ pending) # {})
          => \E r \in Requests, t \in Times : AppliesBatch(r, t)]_vars
    /\ [](\A u \in Users : get_viewed_posts(u) # {} => ttl[u] > 0)

\* Both posts of one call are in the viewed set and in the log.
C9_Witness ==
    /\ get_viewed_posts(1) = {10, 20}
    /\ \E t \in Times : {Encode(1, 10, t), Encode(1, 20, t)} \subseteq pending

\* ---------------------------------------------------------------- C10
\* The step is a flush_to_db call that returns (a count, not an exception).
FlushReturns == pc \in {"flush", "clear"} /\ pc' = "sleep" /\ result'.kind = "flushed"

\* What the call found in the log when it read it.
LogRead == IF pc = "flush" THEN pending ELSE snap

\* C10 as stated: a flush that finds the log non-empty returns a nonzero
\* count; a flush called after another has returned, nothing being logged in
\* between, returns zero and changes neither the log nor the durable store.
C10_Original ==
    [][FlushReturns =>
          /\ LogRead # {} => result'.count > 0
          /\ quiet => (result'.count = 0 /\ pending' = pending /\ db' = db)]_vars

\* C10 as amended: a flush that returns gives a nonzero count whenever the log
\* it read held at least one entry that parses (a log of malformed entries
\* only gives zero); the second part is as stated.
C10_FlushIdempotent ==
    [][FlushReturns =>
          /\ Parsed(LogRead) # {} => result'.count > 0
          /\ Parsed(LogRead) = {} => result'.count = 0
          /\ quiet => (result'.count = 0 /\ pending' = pending /\ db' = db)]_vars

\* A flush has returned zero after an earlier flush had written rows, nothing
\* being logged in between.
C10_Witness == pc = "sleep" /\ quiet /\ result = Flushed(0) /\ DOMAIN db # {}

\* ---------------------------------------------------------------- C11
\* The step ends the reading and parsing of a tick whose smembers returned.
ParsingEnds == pc = "flush" /\ pc' \notin {"flush", "cancelled"} /\ result' # Failed

\* C11 as stated: whatever the pending log holds, the parsing of the snapshot
\* does not make the tick raise; a snapshot with an entry that parses goes on
\* to the bulk write, and the write that returns has written every entry of
\* the snapshot that parses, the entries that do not parse being skipped.
C11_ParsingNeverRaises ==
    /\ [][ParsingEnds =>
             /\ result'.kind # "OverflowError"
             /\ Parsed(pending) # {} => (pc' = "write" /\ snap' = pending)]_vars
    /\ [][(pc = "write" /\ pc' = "clear") =>
             \A e \in Parsed(snap) : Durable(e)']_vars

\* ---------------------------------------------------------------- C12
\* The entries of the running tick's snapshot that the parsing loop skipped.
Skipped == snap \ Parsed(snap)

\* The rows of the entries of the snapshot that parse.
SnapshotRows == {ParseItem(e)[1] : e \in Parsed(snap)}

\* C12 as stated: no ViewRecord is made of a malformed entry, and when the
\* tick that read it goes to sleep the entry is out of the log, so that no
\* later tick examines it.
C12_Original ==
    /\ [][db' # db => (DOMAIN db' \ DOMAIN db) \subseteq SnapshotRows]_vars
    /\ [][(pc \in {"write", "clear"} /\ pc' = "sleep") =>
             Skipped \cap pending' = {}]_vars

\* C12 as amended: no ViewRecord is made of a malformed entry, and the clear of
\* the tick that read it deletes it with the rest of the log; when the bulk
\* write or the delete of that tick raises, the entry stays in the log with
\* the others and the next tick reads and skips it again.
C12_MalformedDiscarded ==
    /\ [][db' # db => (DOMAIN db' \ DOMAIN db) \subseteq SnapshotRows]_vars
    /\ [][ClearStep => Skipped \cap pending' = {}]_vars
    /\ [][(pc \in {"write", "clear"} /\ pc' = "sleep" /\ result'.kind # "flushed") =>
             Skipped \subseteq pending']_vars

\* After a failed write, a tick has read a log that holds a malformed entry
\* and an entry that parses, and has written the latter.
C12_Witness ==
    /\ pc = "clear"
    /\ retry.on
    /\ Skipped # {}
    /\ \E e \in Parsed(snap) : Durable(e)

\* ---------------------------------------------------------------- C13
\* The lists of at most MaxList post ids, repeated ids included.
PostIdLists == UNION {[1..n -> PostIds] : n \in 0..MaxList}

\* The positions of ids whose post u has not viewed.
KeptPositions(u, ids) == {j \in 1..Len(ids) : ids[j] \notin get_viewed_posts(u)}

\* The i-th smallest member of a set of positions.
NthOf(P, i) == CHOOSE j \in P : Cardinality({k \in P : k < j}) = i - 1

Range(seq) == {seq[i] : i \in 1..Len(seq)}

\* C13: for every user and every list of post ids, filter_unviewed returns the
\* elements of the list that are not in get_viewed_posts(u), each as often as
\* the list holds it and in the order of the list; the result shares no
\* element with the viewed set and, with the viewed elements of the list,
\* covers the list; for the empty list the result is empty and no command is
\* sent to the cache.
C13_FilterUnviewed ==
    \A u \in Users, ids \in PostIdLists :
        LET out == filter_unviewed(u, ids)
            keep == KeptPositions(u, ids)
        IN  /\ Len(out) = Cardinality(keep)
            /\ \A i \in 1..Len(out) : out[i] = ids[NthOf(keep, i)]
            /\ Range(out) \cap get_viewed_posts(u) = {}
            /\ Range(out) \cup (Range(ids) \cap get_viewed_posts(u)) = Range(ids)
            /\ ids = << >> => (out = << >> /\ filter_unviewed_commands(u, ids) = << >>)
            /\ ids # << >> => filter_unviewed_commands(u, ids) # << >>

\* User 2 has viewed post 10 only, and a list that repeats ids out of order is
\* filtered to the repeated unviewed ids in the order of the list.
C13_Witness ==
    /\ get_viewed_posts(2) = {10}
    /\ filter_unviewed(2, <<20, 10, 20>>) = <<20, 20>>

\* ---------------------------------------------------------------- C14
\* C14: when one mark_viewed(u, ids) call has filled the empty pending log and
\* nothing but the flush job has run since, the flush whose bulk write
\* succeeds returns the number of distinct post ids of the call and leaves a
\* row (u, p) in the durable store for every p of ids, the pending log empty,
\* and has_viewed(u, p) true for every p of ids.
C14_BasicRoundTrip ==
    [][(trip.on /\ ClearStep) =>
          \A u \in {trip.user} :
              /\ result' = Flushed(Cardinality(trip.ids))
              /\ \A p \in trip.ids : InDb(u, p)'
              /\ pending' = {}
              /\ \A p \in trip.ids : has_viewed(u, p)']_vars

\* mark_viewed(1, [10, 20]) filled the empty log and the bulk write of the
\* flush that followed has returned.
C14_Witness ==
    /\ pc = "clear"
    /\ trip = [on |-> TRUE, user |-> 1, ids |-> {10, 20}]
    /\ InDb(1, 10) /\ InDb(1, 20)

\* ---------------------------------------------------------------- C15
\* C15: a tick issues its bulk write once, after the snapshot, when the
\* snapshot holds an entry that parses; the durable store changes only by that
\* write; when the write returns, a ViewRecord of every parsed entry of the
\* snapshot is in the store; and the tick then deletes the whole log and
\* returns the number of parsed entries of the snapshot, duplicates of one
\* another and of stored rows included, unless the delete itself raises or
\* the host cancels the job.
C15_OneWriteThenClear ==
    /\ [][(pc # "write" /\ pc' = "write") =>
             (pc = "flush" /\ snap' = pending /\ Parsed(pending) # {})]_vars
    /\ [][db' # db => (pc = "write" /\ pc' \in {"clear", "cancelled"})]_vars
    /\ [][(pc = "write" /\ pc' = "clear") =>
             (snap' = snap /\ \A e \in Parsed(snap) : Durable(e)')]_vars
    /\ [][(pc = "clear" /\ pc' # "clear") =>
             \/ /\ pc' = "sleep"
                /\ pending' = {}
                /\ result' = Flushed(Cardinality(Parsed(snap)))
             \/ pc' = "sleep" /\ result' = Failed /\ pending' = pending
             \/ pc' = "cancelled"]_vars

\* A tick has returned 2 for a snapshot of two entries of one pair: the store
\* holds one row.
C15_Witness ==
    /\ pc = "sleep"
    /\ result = Flushed(2)
    /\ pending = {}
    /\ Cardinality(DOMAIN db) = 1

\* ---------------------------------------------------------------- C16
\* C16: a ViewRecord the durable store holds stays as it is, its viewed_at
\* included, whatever entries of its pair are flushed in the same or a later
\* tick.
C16_FirstWriteWins == [][\A r \in DOMAIN db : r \in DOMAIN db' /\ db'[r] = db[r]]_vars

\* The write of a later tick, whose snapshot is one entry of a pair the store
\* already held with another timestamp, has returned.
C16_Witness ==
    /\ pc = "clear"
    /\ \E e \in Parsed(snap) :
          /\ snap = {e}
          /\ \E r \in DOMAIN db :
                /\ r.user_id = EntryUser(e) /\ r.post_id = EntryPost(e)
                /\ r.viewed_at # ParseItem(e)[1].viewed_at

\* ---------------------------------------------------------------- C17
\* The entries of a log that decode to the view (u, p, t).
EntriesOf(log, u, p, t) ==
    {e \in log : ParseItem(e) = <<[user_id |-> u, post_id |-> p, viewed_at |-> t]>>}

\* C17: a mark_viewed call leaves in the pending log exactly one entry per
\* post id of the call, decoding to the user, that post and the time of the
\* call, and removes nothing: an entry of the same user and post with another
\* timestamp stays next to the new one, and an entry with the same user, post
\* and timestamp is not added twice, be it by a repeated id of the call or by
\* an earlier call.
C17_DedupByFullString ==
    [][\A r \in Requests, t \in Times :
          (r[2] # << >> /\ MarkViewed(r[1], r[2], t)) =>
              /\ pending \subseteq pending'
              /\ \A p \in Range(r[2]) : Cardinality(EntriesOf(pending', r[1], p, t)) = 1
              /\ Cardinality(pending' \ pending) =
                    Cardinality({p \in Range(r[2]) : EntriesOf(pending, r[1], p, t) = {}})]_vars

\* Two calls mark_viewed(2, [10, 10]) at different times have left two
\* entries of the pair (2, 10), one per call.
C17_Witness ==
    /\ Cardinality(pending) = 2
    /\ \E e1, e2 \in pending \cap LoggedEntries : SamePair(e1, e2)

\* ---------------------------------------------------------------- C18
\* C18: mark_viewed(u, []) sends no command to the cache, and the step leaves
\* the viewed sets, their TTLs, the pending log, the durable store and what
\* the next flush will count as they were.
C18_EmptyInputNoOp ==
    /\ [](\A u \in Users, t \in Times :
             /\ mark_viewed_commands(u, << >>, t) = << >>
             /\ PipeExecute(mark_viewed_commands(u, << >>, t), Cache) = Cache)
    /\ [][\A u \in Users, t \in Times : MarkViewed(u, << >>, t) => UNCHANGED vars]_vars

\* mark_viewed(1, []) is called while user 1 has a viewed set and the log is
\* not empty, after a flush that returned.
C18_Witness ==
    /\ <<1, << >>>> \in Requests
    /\ get_viewed_posts(1) # {}
    /\ pending # {}
    /\ DOMAIN db # {}

\* ---------------------------------------------------------------- C19
\* C19: a tick that reads an empty log returns 0 and sleeps in the same step,
\* with the durable store and the log untouched (unless the read raises or the
\* host cancels); nothing leaves the log while the job sleeps, and the next
\* tick's snapshot is the whole log, so an entry logged after the empty
\* snapshot is in it.
C19_EmptySnapshotSleeps ==
    /\ [][(pc = "flush" /\ pending = {} /\ pc' # "flush") =>
             \/ pc' = "sleep" /\ result' = Flushed(0) /\ db' = db /\ pending' = {}
             \/ pc' = "sleep" /\ result' = Failed /\ db' = db /\ pending' = {}
             \/ pc' = "cancelled" /\ db' = db /\ pending' = {}]_vars
    /\ [][pc = "sleep" => (pending \subseteq pending' /\ db' = db)]_vars
    /\ [][(pc = "flush" /\ pc' \in {"write", "clear"}) => snap' = pending]_vars

\* The job sleeps after a tick that found the log empty, nothing was ever
\* written, and mark_viewed has logged entries since.
C19_Witness ==
    /\ pc = "sleep"
    /\ result = Flushed(0)
    /\ trip.on
    /\ pending # {}
    /\ DOMAIN db = {}

\* ---------------------------------------------------------------- C20
\* C20: has_viewed(u, p) is true exactly when p is a member of u's viewed set
\* in the cache; a step that leaves the viewed sets alone leaves every answer
\* alone, whatever it does to the durable store; and for a user whose viewed
\* set is empty (never written, or expired) every answer is false, also for
\* the pairs the durable store holds.
C20_HasViewedCacheOnly ==
    /\ [](\A u \in Users, p \in PostIds :
             /\ has_viewed(u, p) <=> p \in get_viewed_posts(u)
             /\ viewed[u] = {} => ~has_viewed(u, p))
    /\ [][viewed' = viewed =>
             \A u \in Users, p \in PostIds : has_viewed(u, p)' <=> has_viewed(u, p)]_vars

\* The durable store holds (1, 10), the viewed set of user 1 has expired, and
\* has_viewed(1, 10) is false.
C20_Witness ==
    /\ InDb(1, 10)
    /\ viewed[1] = {}
    /\ ~has_viewed(1, 10)

\* ---------------------------------------------------------------- C21
\* C21: a non-empty mark_viewed(u, ...) sets the remaining lifetime of u's
\* viewed set to the full window and keeps every post id the set held; while
\* the set exists its remaining lifetime is the window less the time passed
\* since u's last mark_viewed; and the set loses members only by expiring
\* whole, in a step of time that completes a full window without a
\* mark_viewed of u.
C21_SlidingExpiration ==
    /\ [][\A r \in Requests, t \in Times :
             (r[2] # << >> /\ MarkViewed(r[1], r[2], t)) =>
                 /\ ttl'[r[1]] = VIEW_EXPIRY_SECONDS
                 /\ viewed[r[1]] \subseteq viewed'[r[1]]]_vars
    /\ [](\A u \in Users :
             viewed[u] # {} => (ttl[u] > 0 /\ ttl[u] = VIEW_EXPIRY_SECONDS - idle[u]))
    /\ [][\A u \in Users :
             ~(viewed[u] \subseteq viewed'[u]) =>
                 /\ viewed'[u] = {}
                 /\ idle[u] + ElapseStep >= VIEW_EXPIRY_SECONDS
                 /\ Elapse]_vars

\* Half a window has passed since user 1 last marked a view, and user 2 has
\* marked one since: the set of user 1 has half its lifetime left, that of
\* user 2 the full window.
C21_Witness ==
    /\ viewed[1] # {} /\ ttl[1] = ElapseStep
    /\ viewed[2] # {} /\ ttl[2] = VIEW_EXPIRY_SECONDS

\* ---------------------------------------------------------------- C22
\* C22: a step of the flush path (one that moves the job, writes to the
\* durable store or removes from the pending log) leaves every viewed set and
\* its remaining lifetime as they were, and a step in which a viewed set
\* loses members or lifetime changes neither the pending log nor the durable
\* store: the entries of an expired set stay pending until a tick writes them.
C22_ViewedSetsIndependent ==
    /\ [][(pc' # pc \/ db' # db \/ ~(pending \subseteq pending')) =>
             (viewed' = viewed /\ ttl' = ttl)]_vars
    /\ [][(\E u \in Users : ~(viewed[u] \subseteq viewed'[u]) \/ ttl'[u] < ttl[u]) =>
             (pending' = pending /\ db' = db /\ pc' = pc /\ snap' = snap)]_vars

\* The write of a tick has returned for an entry whose user's viewed set has
\* expired.
C22_Witness ==
    /\ pc = "clear"
    /\ \E e \in Parsed(snap) : Durable(e) /\ viewed[EntryUser(e)] = {}

\* ---------------------------------------------------------------- C23
\* The durable store holds exactly one ViewRecord for the pair of entry e.
OneRecord(e) ==
    Cardinality({r \in DOMAIN db :
                    r.user_id = EntryUser(e) /\ r.post_id = EntryPost(e)}) = 1

\* C23: a cancellation at any await of the job removes or changes no durable
\* row and leaves the pending log whole (only the delete of a tick whose write
\* has returned may still take effect); entries leave the log by that delete
\* alone, and only once every well-formed entry of its snapshot is durable; a
\* scheduler started after a cancellation begins a new tick that changes
\* nothing before it reads the whole log again; and when that tick returns its
\* count the store holds exactly one record for each well-formed entry of its
\* snapshot, and never two records of one pair.
C23_CancelSafeToResume ==
    /\ [][(pc # "cancelled" /\ pc' = "cancelled") =>
             /\ \A r \in DOMAIN db : r \in DOMAIN db' /\ db'[r] = db[r]
             /\ pc # "write" => db' = db
             /\ pending' = pending \/ (pc = "clear" /\ pending' = {})]_vars
    /\ [][~(pending \subseteq pending') =>
             /\ pc = "clear"
             /\ pending' = {}
             /\ \A e \in Parsed(snap) : Durable(e)]_vars
    /\ [][(pc = "cancelled" /\ pc' # "cancelled") =>
             (pc' = "flush" /\ pending' = pending /\ db' = db)]_vars
    /\ [][(pc = "flush" /\ pc' \in {"write", "clear"}) => snap' = pending]_vars
    /\ [][ClearStep => (db' = db /\ \A e \in Parsed(snap) : OneRecord(e))]_vars
    /\ [](\A r \in DOMAIN db : db[r] = 1 /\
              \A q \in DOMAIN db : (q.user_id = r.user_id /\ q.post_id = r.post_id) => q = r)

\* The job was cancelled during a bulk write that took effect: the entries are
\* durable and still in the log, to be submitted again by the next scheduler.
C23_Witness ==
    /\ pc = "cancelled"
    /\ result = Cancelled("write")
    /\ Cardinality(Parsed(pending)) = 2
    /\ \A e \in Parsed(pending) : OneRecord(e)

\* ---------------------------------------------------------------- C24
\* C24: a mark_viewed call whose pipe.execute() raises and a has_viewed call
\* whose sismember raises end with the exception raised to the caller, whether
\* or not the cache ran the command, and no step of the flush job makes a
\* request raise; a tick whose cache read or delete raises ends in the sleep of the
\* same job with the exception caught and reported, the log and the durable
\* store as they were, and no request affected.
C24_CacheFailureSurfaces ==
    /\ [][\A r \in Requests, t \in Times :
             MarkViewedFail(r[1], r[2], t) => raised']_vars
    /\ [][HasViewedFail => raised']_vars
    /\ [][(raised' /\ ~raised) => (pc' = pc /\ db' = db /\ result' = result)]_vars
    /\ [][(FlushSnapshotFail \/ FlushClearFail) =>
             /\ pc' = "sleep"
             /\ result' = Failed
             /\ pending' = pending /\ db' = db
             /\ raised' = raised]_vars
    /\ [][(pc \in {"flush", "clear"} /\ pc' \notin {"cancelled", pc}) =>
             (result'.kind = "error" => (FlushSnapshotFail \/ FlushClearFail))]_vars

\* A request has failed towards its caller with its views logged all the same,
\* and a tick has failed on the cache and gone to sleep.
C24_Witness ==
    /\ raised
    /\ pending # {}
    /\ pc = "sleep"
    /\ result = Failed
    /\ \A e \in Parsed(pending) : Durable(e)

\* ---------------------------------------------------------------- C25
\* C25: every entry mark_viewed renders splits on ':' into three fields and
\* the parsing loop turns it into the ViewRecord of the same user_id, post_id
\* and timestamp without raising; so a tick whose snapshot holds entries of
\* mark_viewed only skips none, does not raise while parsing, and returns the
\* size of its snapshot.
C25_WritersWellFormed ==
    /\ [](\A r \in Requests, t \in Times : \A i \in 1..Len(r[2]) :
             LET e == Encode(r[1], r[2][i], t)
             IN  /\ Len(Split(e)) = 3
                 /\ ~ParseRaises(e)
                 /\ ParseItem(e) = <<[user_id |-> r[1], post_id |-> r[2][i], viewed_at |-> t]>>)
    /\ [][(pc = "flush" /\ pc' # "cancelled" /\ pending # {} /\ pending \subseteq LoggedEntries) =>
             /\ result'.kind # "OverflowError"
             /\ pc' = "write" => (snap' = pending /\ Parsed(snap') = snap')
             /\ pc' # "clear"]_vars
    /\ [][(ClearStep /\ snap \subseteq LoggedEntries) =>
             result'.count = Cardinality(snap)]_vars

\* The write of a tick has returned for a snapshot of two entries of
\* mark_viewed, and the row of one of them carries the call's timestamp 1.
C25_Witness ==
    /\ pc = "clear"
    /\ snap \subseteq LoggedEntries
    /\ Cardinality(snap) = 2
    /\ \E e \in snap : ParseItem(e)[1] \in DOMAIN db /\ ParseItem(e)[1].viewed_at = 1

\* ---------------------------------------------------------------- C26
\* C26: the one job of the process is at one place at a time; a tick starts
\* only when the sleep that followed a returned or failed tick ends, or when a
\* process starts after the cancellation of the last one; a tick runs from its
\* read to its write to its clear and ends in the sleep; and while a tick is
\* between two of its steps nothing rewrites the durable store or the
\* snapshot and the log only grows, as it does by mark_viewed.
C26_OneTickAtATime ==
    /\ [](pc \in Flushing \cup {"sleep", "cancelled"})
    /\ [][(pc' = "flush" /\ pc # "flush") =>
             \/ pc = "sleep" /\ result.kind \in {"flushed", "error", "OverflowError"}
             \/ pc = "cancelled"]_vars
    /\ [][(pc' = "sleep" /\ pc # "sleep") =>
             /\ pc \in Flushing
             /\ result'.kind \in {"flushed", "error", "OverflowError"}
             /\ snap' = {}]_vars
    /\ [][(pc' = "write" /\ pc # "write") => pc = "flush"]_vars
    /\ [][(pc' = "clear" /\ pc # "clear") => pc \in {"flush", "write"}]_vars
    /\ [][(pc \in Flushing /\ pc' = pc) =>
             /\ db' = db /\ snap' = snap /\ result' = result
             /\ pending \subseteq pending']_vars
    /\ [](pc \notin {"write", "clear"} => snap = {})

\* A later tick of the job, after a tick that wrote and a sleep, has read a log
\* to which mark_viewed added while the tick was running.
C26_Witness ==
    /\ pc = "write"
    /\ DOMAIN db # {}
    /\ windowAdds # {}
    /\ windowAdds \subseteq LoggedEntries

\* ---------------------------------------------------------------- C27
LikeOps == {"like", "unlike", "toggle"}

\* No toggle request of the followed user is in progress.
TogglesReturned ==
    \A i \in Slots : ~(calls[i].op = "toggle" /\ calls[i].user = toggled.user
                                              /\ calls[i].post = toggled.post)

\* C27: the like_count a like, unlike or toggle returns is the number of users
\* liking the post at that time; no step of a like by a user who already likes
\* the post changes the likes; a step of an unlike changes no other user's
\* like; and when two toggle requests of a user have returned, the user likes
\* the post if and only if they did when the first was received, and the
\* likes are the same set if no other user's like changed.
C27_LikeCountConsistent ==
    /\ [][(response' # response /\ response'.op \in LikeOps /\ response'.status = 200) =>
             response'.like_count = Cardinality(liked_by'[response'.post])]_vars
    /\ [][\A i \in Slots :
             (calls[i].op = "like" /\ calls'[i] # calls[i]
                /\ calls[i].post \in ExistingPosts /\ calls[i].user \in liked_by[calls[i].post]) =>
                    liked_by' = liked_by]_vars
    /\ [][\A i \in Slots :
             (calls[i].op = "unlike" /\ calls'[i] # calls[i] /\ calls[i].post \in ExistingPosts) =>
                 /\ liked_by'[calls[i].post] \ {calls[i].user} = liked_by[calls[i].post] \ {calls[i].user}
                 /\ \A p \in ExistingPosts \ {calls[i].post} : liked_by'[p] = liked_by[p]]_vars
    /\ []((toggled.on /\ toggled.done = 2 /\ TogglesReturned) =>
             /\ (toggled.user \in liked_by[toggled.post]) = (toggled.user \in toggled.was)
             /\ (liked_by[toggled.post] \ {toggled.user} = toggled.was \ {toggled.user}) =>
                    liked_by[toggled.post] = toggled.was)

\* ---------------------------------------------------------------- C28
\* C28: a delete by a user who is neither the author nor an admin is answered
\* 403 and leaves the post visible; a post becomes deleted only by a delete
\* request of its author or of an admin; a request that looks up a deleted
\* post is answered 404; and a deleted post is never visible again.
C28_DeletedNeverVisible ==
    /\ [][(response' # response /\ response'.op = "delete" /\ response'.status = 403) =>
             /\ Author[response'.post] # response'.user /\ response'.user \notin Admins
             /\ is_deleted' = is_deleted]_vars
    /\ [][\A p \in ExistingPosts : (~is_deleted[p] /\ is_deleted'[p]) =>
             \E i \in Slots : /\ calls[i].op = "delete" /\ calls[i].post = p
                              /\ (calls[i].user = Author[p] \/ calls[i].user \in Admins)
                              /\ response'.status = 204]_vars
    /\ [][\A i \in Slots :
             (calls[i].pc = "get" /\ calls'[i] # calls[i] /\ calls[i].post \in ExistingPosts
                /\ is_deleted[calls[i].post]) => response'.status = 404]_vars
    /\ [][\A p \in ExistingPosts : is_deleted[p] => is_deleted'[p]]_vars

\* ---------------------------------------------------------------- C29
\* C29: an entry of the form mark_viewed renders enters the log only in the
\* step of a mark_viewed call of that user, with that post in its list, at
\* that time; a snapshot holds members of the log only; a row enters the
\* durable store only in the write of a tick, and it is the user, post and
\* timestamp of an entry of that tick's snapshot; no row is changed or
\* removed afterwards; and when one call has filled the empty log, the rows
\* the next write adds are of that call's user and posts.
C29_NoFabricatedViews ==
    /\ [][\A e \in (pending' \ pending) \cap LoggedEntries :
             \E r \in Requests, t \in Times :
                 /\ MarkViewed(r[1], r[2], t)
                 /\ \E i \in 1..Len(r[2]) : e = Encode(r[1], r[2][i], t)]_vars
    /\ [][snap' \subseteq pending \cup snap]_vars
    /\ [][\A r \in DOMAIN db' :
             \/ r \in DOMAIN db /\ db'[r] = db[r]
             \/ /\ pc = "write"
                /\ Encode(r.user_id, r.post_id, r.viewed_at) \in snap]_vars
    /\ [][\A r \in DOMAIN db : r \in DOMAIN db']_vars
    /\ [][(trip.on /\ pc = "write") =>
             \A r \in DOMAIN db' \ DOMAIN db :
                 r.user_id = trip.user /\ r.post_id \in trip.ids]_vars

\* The durable store holds views of two calls made at different times, and
\* nothing is pending.
C29_Witness ==
    /\ pending = {}
    /\ pc = "sleep"
    /\ \E r1, r2 \in DOMAIN db :
          r1.viewed_at = 0 /\ r2.viewed_at = 1 /\ r1.user_id # r2.user_id

\* ---------------------------------------------------------------- C30
\* The well-formed entry e is in the durable store as it stands: its user,
\* post and timestamp are those of a row.
Stored(e) == ParseItem(e)[1] \in DOMAIN db

\* C30: when the delete of the log raises after the bulk write of the tick
\* returned, the loop catches it and sleeps, the log and the durable store are
\* as they were, and every well-formed entry of the snapshot is still in the
\* log with exactly one durable row; a later write whose snapshot holds only
\* entries already stored changes nothing in the durable store; no step changes
\* or removes a row; and the clear of a successful tick counts every
\* well-formed entry of its snapshot, stored before or not.
C30_ClearFailureResubmits ==
    /\ [][(pc = "clear" /\ pc' = "sleep" /\ result'.kind # "flushed") =>
             /\ result' = Failed
             /\ pending' = pending
             /\ db' = db
             /\ snap \subseteq pending'
             /\ \A e \in Parsed(snap) : OneRecord(e)]_vars
    /\ [][(pc = "write" /\ pc' = "clear" /\ \A e \in Parsed(snap) : Stored(e)) =>
             db' = db]_vars
    /\ [][\A r \in DOMAIN db : r \in DOMAIN db' /\ db'[r] = db[r]]_vars
    /\ [][ClearStep =>
             /\ result'.count = Cardinality(Parsed(snap))
             /\ \A e \in Parsed(snap) : OneRecord(e)
             /\ db' = db]_vars

\* The tick that followed one mark_viewed call has ended as a caught failure,
\* and every entry of that call is both in the log and stored.
C30_Witness ==
    /\ pc = "sleep"
    /\ result = Failed
    /\ trip.on
    /\ ~raised
    /\ Cardinality(pending) = 2
    /\ \A e \in pending : WellFormed(e) /\ Stored(e)
    /\ Cardinality(DOMAIN db) = 2

====
